---- MODULE Spec2Model ----
(***************************************************************************)
(* Itinerary planner: solve_itinerary / run_optimize of src/optimiser.py.  *)
(*                                                                         *)
(* One call of solve_itinerary is followed from its inputs to its return   *)
(* value (or to the exception that leaves it).  The MILP solver is an      *)
(* external capability: it is modelled as returning ANY assignment of the  *)
(* decision variables that satisfies the constraints run_optimize adds to  *)
(* the model, or a failure status.                                         *)
(*                                                                         *)
(* Place indices are 0-based as in the source; sequences are 1-based, so   *)
(* the place with index i is cleaned_places[i + 1].                        *)
(* Times are whole hours, distances whole kilometres.                      *)
(***************************************************************************)
EXTENDS Integers, Sequences, FiniteSets

VARIABLES
    potential_hotels,         \* argument: list of hotel records
    potential_attractions,    \* argument: list of attraction records
    trip_duration_days,       \* argument
    max_daily_hours,          \* argument
    is_daily_limit_flexible,  \* argument
    objective_weights,        \* argument: the two weights, in hundredths
    provider,                 \* what the matrix provider will answer: "ok" | "fail"
    cleaned_places,           \* local: the named places, hotels first
    hotel_indices,            \* local: indices of the hotels
    attraction_indices,       \* local: indices of the attractions
    pc,                       \* position inside solve_itinerary
    matrix_calls,             \* number of calls of get_travel_matrices
    solver_calls,             \* number of calls of run_optimize
    status,                   \* status returned by model.optimize()
    sol,                      \* the solver's variable assignment, one record per day
    results,                  \* the dictionary run_optimize returns
    itineraries,              \* the list solve_itinerary returns
    exception,                \* the exception that left solve_itinerary, or "none"
    start_hotel,              \* route walk: the hotel the day starts at
    current,                  \* route walk: the place the walk stands at
    visited                   \* route walk: the set "visited"

vars == <<potential_hotels, potential_attractions, trip_duration_days,
          max_daily_hours, is_daily_limit_flexible, objective_weights, provider,
          cleaned_places, hotel_indices, attraction_indices, pc, matrix_calls,
          solver_calls, status, sol, results, itineraries, exception,
          start_hotel, current, visited>>

(***************************************************************************)
(* Bounds of the model.                                                    *)
(***************************************************************************)
MaxHotels == 2
MaxAttractions == 3
MaxPlaces == 4
MaxDays == 2
SlackStep == 7
SlackLevels == 2

\* Python's None for the optional numbers of the result dictionary.
None == <<>>
Some(v) == <<v>>
\* A record without a usable name carries the empty name.
NoName == <<>>

\* The values the continuous variable slack[k] (lb = 0, no upper bound) takes
\* in the model: a grid reaching beyond the longest day of the bounded inputs.
SlackValues == {SlackStep * l : l \in 0..SlackLevels}

\* The daily budgets tried: 0, below every round trip, between, above all.
MaxDailyHoursValues == {0, 1, 5, 12}

\* The weights app.py passes for the initial position of its slider
\* (travel_style = 50), in hundredths.
SliderDefaultWeights ==
    [distance_weight |-> Some(50), time_balance_weight |-> Some(50)]

(***************************************************************************)
(* Inputs: the records the caller passes (app.py builds them with name,    *)
(* is_hotel and duration; a hotel's duration is 0).                        *)
(***************************************************************************)
HotelRecord(i, named) ==
    [name |-> IF named THEN <<"hotel", i>> ELSE NoName,
     is_hotel |-> TRUE, duration |-> 0]

AttractionRecord(i, named) ==
    [name |-> IF named THEN <<"attraction", i>> ELSE NoName,
     is_hotel |-> FALSE, duration |-> 1 + ((i + 1) % 2)]

HotelLists ==
    UNION {{[i \in 1..m |-> HotelRecord(i, f[i])] : f \in [1..m -> BOOLEAN]}
           : m \in 0..MaxHotels}

AttractionLists ==
    UNION {{[i \in 1..m |-> AttractionRecord(i, f[i])] : f \in [1..m -> BOOLEAN]}
           : m \in 0..MaxAttractions}

(***************************************************************************)
(* Helpers.                                                                *)
(***************************************************************************)
RECURSIVE SumOver(_, _)
SumOver(S, f) ==
    IF S = {} THEN 0
    ELSE LET e == CHOOSE e \in S : TRUE IN f[e] + SumOver(S \ {e}, f)

Abs(v) == IF v < 0 THEN -v ELSE v

Range(s) == {s[i] : i \in DOMAIN s}

Truthy(name) == name # NoName

(***************************************************************************)
(* solve_itinerary, part 2: data cleaning and index construction.          *)
(***************************************************************************)
\* One entry of cleaned_places for the input record p.
CleanRecord(p) ==
    [name |-> p.name,
     duration |-> IF ~p.is_hotel THEN p.duration ELSE 0,
     is_hotel |-> p \in Range(potential_hotels)]

\* Variant of CleanedPlaces that keeps the records without a name.
CleanedPlacesKeepAll ==
    LET all == potential_hotels \o potential_attractions
    IN [i \in 1..Len(all) |-> CleanRecord(all[i])]

\* The list cleaned_places built by the cleaning loop.
CleanedPlaces ==
    LET all == potential_hotels \o potential_attractions
        kept == SelectSeq(all, LAMBDA p : Truthy(p.name))
    IN [i \in 1..Len(kept) |-> CleanRecord(kept[i])]

\* "name in place_to_index" for the dictionary built from the list cp.
HasIndex(cp, name) == \E i \in 1..Len(cp) : cp[i].name = name

\* place_to_index[name]: the dict comprehension keeps, for a name, the last
\* index carrying it.
place_to_index(cp, name) ==
    (CHOOSE i \in 1..Len(cp) :
        /\ cp[i].name = name
        /\ \A j \in 1..Len(cp) : cp[j].name = name => j <= i) - 1

HotelIndices(cp) ==
    LET found == SelectSeq(potential_hotels, LAMBDA p : HasIndex(cp, p.name))
    IN [i \in 1..Len(found) |-> place_to_index(cp, found[i].name)]

AttractionIndices(cp) ==
    LET found == SelectSeq(potential_attractions, LAMBDA p : HasIndex(cp, p.name))
    IN [i \in 1..Len(found) |-> place_to_index(cp, found[i].name)]

all_places_name == [i \in 1..Len(cleaned_places) |-> cleaned_places[i].name]

visiting_time(i) == cleaned_places[i + 1].duration

(***************************************************************************)
(* run_optimize: the sets and parameters of the model.                     *)
(***************************************************************************)
n == Len(cleaned_places)
N == 0..(n - 1)
H == Range(hotel_indices)
A == Range(attraction_indices)
day == trip_duration_days
K == 0..(day - 1)
T_max == max_daily_hours
flexible == is_daily_limit_flexible

\* The weights are kept in hundredths: 50 stands for 0.5.  A weight the
\* dictionary does not hold is None (objective_weights.get(...)).
DefaultWeight == 50

\* "data['alpha'] or 0.5": Python's "or" yields the right operand when the
\* left one is falsy, and both None and 0 are falsy.
OrDefault(w) == IF w = None \/ w = Some(0) THEN DefaultWeight ELSE w[1]

alpha == OrDefault(objective_weights.distance_weight)
beta == OrDefault(objective_weights.time_balance_weight)

\* The matrices the provider answers with when it succeeds: those of the
\* offline provider of the source (distance 5 * |i - j|, time growing with
\* |i - j|; the time unit of the model is the hour).
d(i, j) == IF i = j THEN 0 ELSE Abs(i - j) * 5
t(i, j) == IF i = j THEN 0 ELSE Abs(i - j)

distance_matrix_empty == provider = "fail"

(***************************************************************************)
(* run_optimize: bounds of the distance objective and the exceptions the   *)
(* construction of the model raises before model.optimize() is reached.    *)
(***************************************************************************)
row_values(i) == {j \in N : j # i}
max_row(i) == CHOOSE v \in {d(i, j) : j \in row_values(i)} :
                 \A j \in row_values(i) : d(i, j) <= v
min_row(i) == CHOOSE v \in {d(i, j) : j \in row_values(i)} :
                 \A j \in row_values(i) : d(i, j) >= v
max_d == SumOver(N, [i \in N |-> max_row(i)])
min_d == SumOver(N, [i \in N |-> min_row(i)])

objective_time_balance_max == T_max * Cardinality(K)
objective_slack_max == T_max * Cardinality(K)
objective_penalty_max == Cardinality(A)

\* The first exception raised between the entry of run_optimize and the call
\* of model.optimize(), in the order of the statements; "none" if none is.
BuildError ==
    IF K # {} /\ n >= 2 /\ distance_matrix_empty THEN "IndexError"  \* d[i][j], objective_dist
    ELSE IF n = 1 THEN "ValueError"                                 \* max(row_values) of an empty row
    ELSE IF distance_matrix_empty THEN "IndexError"                 \* d[i][j], row_values
    ELSE IF max_d - min_d = 0 THEN "ZeroDivisionError"              \* normalization_dist
    ELSE IF objective_time_balance_max = 0 THEN "ZeroDivisionError" \* normalization_time_balance
    ELSE IF objective_penalty_max = 0 THEN "ZeroDivisionError"      \* normalization_penalty
    ELSE "none"

(***************************************************************************)
(* run_optimize: decision variables.  A day's assignment is a record       *)
(*   x     : the set of arcs <<i, j>>, i # j, with x[i][j][k] = 1          *)
(*   y     : y[i][k] for the attractions i                                 *)
(*   u     : u[i][k] for every place i                                     *)
(*   slack : slack[k]                                                      *)
(* x[i][i][k], y[q][k] of a hotel q, T, T_avg and Z occur in no constraint *)
(* that restricts x, y, u or slack and are not part of the state.          *)
(***************************************************************************)
Arcs == {a \in N \X N : a[1] # a[2]}

OutDeg(xk, i) == Cardinality({a \in xk : a[1] = i})
InDeg(xk, j) == Cardinality({a \in xk : a[2] = j})
xval(xk, i, j) == IF <<i, j>> \in xk THEN 1 ELSE 0

(***************************************************************************)
(* run_optimize: the constraints, numbered as in the source.               *)
(***************************************************************************)
\* Variant of TripDegreeOK without the upper bound "<= 1" (and with ">= 1" for
\* "== 1"): the degree of an attraction over the trip is bounded below only.
TripDegreeNoUpper(count) ==
    IF flexible THEN count >= 1 ELSE count >= 0

\* Variant of TripDegreeOK that lets an attraction be entered and left twice
\* over the trip.
TripDegreeTwice(count) ==
    IF flexible THEN count >= 1 /\ count <= 2 ELSE count >= 0 /\ count <= 2

\* (2), (3): how often an attraction is entered / left over the whole trip.
TripDegreeOK(count) ==
    IF flexible THEN count = 1 ELSE count >= 0 /\ count <= 1

Constr2(s) ==
    \A j \in A : TripDegreeOK(SumOver(K, [k \in K |-> InDeg(s[k].x, j)]))

Constr3(s) ==
    \A i \in A : TripDegreeOK(SumOver(K, [k \in K |-> OutDeg(s[k].x, i)]))

\* (4): one arc hotel -> attraction each day.
Constr4(xk) ==
    Cardinality({a \in xk : a[1] \in H /\ a[2] \in A}) = 1

\* (5): one arc attraction -> hotel each day.
Constr5(xk) ==
    Cardinality({a \in xk : a[2] \in H /\ a[1] \in A}) = 1

\* (6): an attraction is left and entered y[i][k] times on day k.
Constr6Out(xk, yk, i) == OutDeg(xk, i) = yk[i]
Constr6In(xk, yk, i) == InDeg(xk, i) = yk[i]

Constr6(xk, yk) ==
    \A i \in A : Constr6Out(xk, yk, i) /\ Constr6In(xk, yk, i)

\* Variant of Constr7 with right-hand side n instead of n - 1.
Constr7OffByOne(xk, uk) ==
    \A i \in A : \A j \in A :
        i # j => uk[i] - uk[j] + n * xval(xk, i, j) <= n

\* (7): Miller-Tucker-Zemlin inequality over the attractions.
Constr7(xk, uk) ==
    \A i \in A : \A j \in A :
        i # j => uk[i] - uk[j] + n * xval(xk, i, j) <= n - 1

\* (8): the order marker of a hotel is 0.
Constr8(uk) == \A q \in H : uk[q] = 0

\* (9): the order marker of an attraction lies between y and (n-1) * y.
Constr9(yk, uk) ==
    \A i \in A : uk[i] >= yk[i] /\ uk[i] <= (n - 1) * yk[i]

\* (10): the daily time budget.
travel_term(xk) == SumOver(xk, [a \in xk |-> t(a[1], a[2])])
visit_term(xk) == SumOver(N, [j \in N |-> visiting_time(j) * InDeg(xk, j)])

\* Variant of Constr10 that leaves the visit term out of the budget.
Constr10TravelOnly(xk, slk) ==
    IF flexible THEN travel_term(xk) <= T_max + slk
    ELSE travel_term(xk) <= T_max

\* Variant of Constr10 that widens the strict budget by the largest slack.
Constr10AlwaysSlack(xk, slk) ==
    IF flexible THEN travel_term(xk) + visit_term(xk) <= T_max + slk
    ELSE travel_term(xk) + visit_term(xk) <= T_max + SlackStep * SlackLevels

Constr10(xk, slk) ==
    IF flexible THEN travel_term(xk) + visit_term(xk) <= T_max + slk
    ELSE travel_term(xk) + visit_term(xk) <= T_max

\* Variant of Constr16 that reads the return arcs of day k instead of day k - 1.
Constr16SameDay(s) ==
    \A k \in 1..(Cardinality(K) - 1) : \A q \in H :
        Cardinality({j \in A : <<q, j>> \in s[k].x})
            = Cardinality({i \in A : <<i, q>> \in s[k].x})

\* (16): a hotel is left on day k as often as it was entered on day k - 1.
Constr16(s) ==
    \A k \in 1..(Cardinality(K) - 1) : \A q \in H :
        Cardinality({j \in A : <<q, j>> \in s[k].x})
            = Cardinality({i \in A : <<i, q>> \in s[k - 1].x})

\* Variant of Constr17 that adds no constraint for day 0.
Constr17Dropped(s) == TRUE

\* (17): on day 0 a hotel is left as often as it is entered.
Constr17(s) ==
    \A q \in H :
        Cardinality({j \in A : <<q, j>> \in s[0].x})
            - Cardinality({i \in A : <<i, q>> \in s[0].x}) = 0

\* (18): no arc between two hotels.
Constr18(xk) ==
    \A q \in H : \A r \in H : q # r => <<q, r>> \notin xk

(***************************************************************************)
(* The solver: the assignments that satisfy every constraint.              *)
(*                                                                         *)
(* The arc sets of a day are enumerated row by row (the arcs leaving one   *)
(* place).  A row is dropped early when it alone already violates (18) or  *)
(* the outgoing half of (6) for a binary y[i][k]: adding arcs of other     *)
(* rows cannot repair either.  Every constraint of the day is then checked *)
(* on the whole arc set.  The constraints that couple the days read x      *)
(* only; they are checked on the arc sets of the trip.                     *)
(* slack[k] occurs in no constraint in strict mode and is not read there:  *)
(* it is kept at its lower bound.                                          *)
(***************************************************************************)
SlackDomain == IF flexible THEN SlackValues ELSE {0}

RowArcs(i) == {a \in Arcs : a[1] = i}

Rows(i) ==
    {R \in SUBSET RowArcs(i) :
        /\ Constr18(R)
        /\ i \in A => \E v \in {0, 1} : Constr6Out(R, [j \in A |-> v], i)}

RECURSIVE RowUnions(_)
RowUnions(S) ==
    IF S = {} THEN {{}}
    ELSE LET i == CHOOSE i \in S : TRUE
             rest == RowUnions(S \ {i})
         IN UNION {{R \cup xr : xr \in rest} : R \in Rows(i)}

DaySolutions ==
    LET xs == {xk \in RowUnions(N) : Constr4(xk) /\ Constr5(xk) /\ Constr18(xk)}
        xy == {p \in xs \X [A -> {0, 1}] : Constr6(p[1], p[2])}
        xyu == {p \in xy \X [N -> 0..(n - 1)] :
                   /\ Constr7(p[1][1], p[2])
                   /\ Constr8(p[2])
                   /\ Constr9(p[1][2], p[2])}
    IN {[x |-> p[1][1][1], y |-> p[1][1][2], u |-> p[1][2], slack |-> p[2]] :
          p \in {q \in xyu \X SlackDomain : Constr10(q[1][1][1], q[2])}}

Solutions ==
    LET ds == DaySolutions
        dx == {r.x : r \in ds}
        trips == {s \in [K -> [x : dx]] :
                     Constr2(s) /\ Constr3(s) /\ Constr16(s) /\ Constr17(s)}
    IN {s \in [K -> ds] : [k \in K |-> [x |-> s[k].x]] \in trips}

\* The arc sets of a day that satisfy the constraints on x alone, taken from
\* all subsets of the arcs: what the row-by-row enumeration must produce.
DayArcSetsDirect ==
    {xk \in SUBSET Arcs :
        /\ Constr4(xk) /\ Constr5(xk) /\ Constr18(xk)
        /\ \E yk \in [A -> {0, 1}] : Constr6(xk, yk)}

(***************************************************************************)
(* run_optimize: reading the routes and the metrics off the assignment.    *)
(***************************************************************************)
x(i, j, k) == xval(sol[k].x, i, j)
y(i, k) == sol[k].y[i]
u(i, k) == sol[k].u[i]
slack(k) == sol[k].slack

MinOf(S) == CHOOSE v \in S : \A w \in S : v <= w

day_dist(k) == SumOver(sol[k].x, [a \in sol[k].x |-> d(a[1], a[2])])

total_travel_time(k) == SumOver(sol[k].x, [a \in sol[k].x |-> t(a[1], a[2])])

total_visit_time(k) ==
    SumOver(N \ H, [j \in N \ H |-> visiting_time(j) * InDeg(sol[k].x, j)])

total_time_spent(k) == total_travel_time(k) + total_visit_time(k)

penalty_value ==
    SumOver(A, [i \in A |-> 1 - SumOver(K, [k \in K |-> y(i, k)])])

total_slack == SumOver(K, [k \in K |-> slack(k)])

\* The objective components, as the expressions of the model evaluate on the
\* assignment returned.
objective_dist == SumOver(K, [k \in K |-> day_dist(k)])
objective_slack == SumOver(K, [k \in K |-> slack(k)])
objective_penalty ==
    SumOver(A, [i \in A |-> 1 - SumOver(K, [k \in K |-> y(i, k)])])

\* (11): T[k], the travel time of day k plus the visit time of the places
\* with y[j][k] = 1 (y[q][k] of a hotel q is free; it is taken as 0).
T(k) == total_travel_time(k)
          + SumOver(A, [j \in A |-> visiting_time(j) * y(j, k)])

\* (12), (13): Z[k] >= |T[k] - T_avg| with T_avg = sum(T) / len(K), and Z[k]
\* has no upper bound.  The least value sum(Z) can take, multiplied by
\* len(K) to stay within the integers.
least_time_balance_scaled ==
    LET total == SumOver(K, [k \in K |-> T(k)])
    IN SumOver(K, [k \in K |-> Abs(Cardinality(K) * T(k) - total)])

\* The places the scan "for j in N: if j != current and x[current][j][k] > 0.5"
\* can stop at; it stops at the first, N being scanned in ascending order.
Successors(from, k) == {j \in N : j # from /\ x(from, j, k) = 1}

\* Variant of StartHotels that takes every hotel, with or without an arc.
StartHotelsAny(k) == H

\* The hotels with an outgoing arc on day k; the scan takes the first.
StartHotels(k) == {q \in H : Successors(q, k) # {}}

\* Variant of Walk that stops after the first arc it finds.
WalkFirstArc(from, route, k, start) ==
    IF Successors(from, k) = {} THEN route
    ELSE Append(route, <<from, MinOf(Successors(from, k))>>)

\* The loop "while True" of the route walk, entered at `from` with the
\* pairs collected so far.
RECURSIVE Walk(_, _, _, _)
Walk(from, route, k, start) ==
    IF Successors(from, k) = {} THEN route
    ELSE LET j == MinOf(Successors(from, k))
         IN IF j \in H /\ j = start
            THEN Append(route, <<from, j>>)
            ELSE Walk(j, Append(route, <<from, j>>), k, start)

\* The route of day k: empty when no hotel has an outgoing arc.
DayRoute(k) ==
    IF StartHotels(k) = {} THEN <<>>
    ELSE Walk(MinOf(StartHotels(k)), <<>>, k, MinOf(StartHotels(k)))

NoRoute(k) == StartHotels(k) = {}

\* The dictionary "results" as initialised before model.optimize().
EmptyResults ==
    [total_distance |-> 0,
     daily_routes |-> <<>>,
     daily_travel_time |-> <<>>,
     daily_visit_time |-> <<>>,
     daily_total_time_spent |-> <<>>,
     daily_distance |-> <<>>,
     total_slack |-> None,
     penalty_value |-> None]

\* The dictionary after the branch for status OPTIMAL or FEASIBLE.
SolvedResults ==
    [total_distance |-> SumOver(K, [k \in K |-> day_dist(k)]),
     daily_routes |-> [p \in 1..day |-> DayRoute(p - 1)],
     daily_travel_time |->
        [p \in 1..day |-> IF NoRoute(p - 1) THEN 0 ELSE total_travel_time(p - 1)],
     daily_visit_time |->
        [p \in 1..day |-> IF NoRoute(p - 1) THEN 0 ELSE total_visit_time(p - 1)],
     daily_total_time_spent |->
        [p \in 1..day |-> IF NoRoute(p - 1) THEN 0 ELSE total_time_spent(p - 1)],
     daily_distance |->
        [p \in 1..day |-> IF NoRoute(p - 1) THEN 0 ELSE day_dist(p - 1)],
     total_slack |-> IF flexible THEN Some(total_slack) ELSE None,
     penalty_value |-> IF flexible THEN None ELSE Some(penalty_value)]

Solved(st) == st \in {"OPTIMAL", "FEASIBLE"}

(***************************************************************************)
(* solve_itinerary, part 3: the itinerary built from the results.          *)
(***************************************************************************)
\* next(place for place in hotels + attractions if place["name"] == name)
FirstPlaceNamed(name) ==
    LET all == potential_hotels \o potential_attractions
        hits == {i \in 1..Len(all) : all[i].name = name}
    IN IF hits = {} THEN <<>> ELSE <<all[MinOf(hits)]>>

RECURSIVE Destinations(_)
Destinations(route) ==
    IF route = <<>> THEN <<>>
    ELSE FirstPlaceNamed(all_places_name[route[1][2] + 1])
            \o Destinations(Tail(route))

\* Variant of daily_route that does not put the departure hotel in front.
daily_route_no_start(route) ==
    IF route # <<>> THEN Destinations(route) ELSE <<"No route available">>

daily_route(route) ==
    IF route # <<>>
    THEN FirstPlaceNamed(all_places_name[route[1][1] + 1]) \o Destinations(route)
    ELSE <<"No route available">>

Itinerary(res) ==
    [title |-> "Optimized Route",
     total_distance |-> res.total_distance,
     total_time |-> SumOver(DOMAIN res.daily_total_time_spent,
                            res.daily_total_time_spent),
     daily_routes |-> [p \in DOMAIN res.daily_routes |->
                          daily_route(res.daily_routes[p])]]

(***************************************************************************)
(* The call of solve_itinerary, statement group by statement group.        *)
(***************************************************************************)
Init ==
    /\ potential_hotels \in HotelLists
    /\ potential_attractions \in AttractionLists
    /\ Len(potential_hotels) + Len(potential_attractions) <= MaxPlaces
    /\ trip_duration_days \in 0..MaxDays
    /\ max_daily_hours \in MaxDailyHoursValues
    /\ is_daily_limit_flexible \in BOOLEAN
    /\ objective_weights = SliderDefaultWeights
    /\ provider \in {"ok", "fail"}
    /\ cleaned_places = <<>>
    /\ hotel_indices = <<>>
    /\ attraction_indices = <<>>
    /\ pc = "clean"
    /\ matrix_calls = 0
    /\ solver_calls = 0
    /\ status = "NOT_RUN"
    /\ sol = <<>>
    /\ results = EmptyResults
    /\ itineraries = <<>>
    /\ exception = "none"
    /\ start_hotel = None
    /\ current = None
    /\ visited = {}

inputs == <<potential_hotels, potential_attractions, trip_duration_days,
            max_daily_hours, is_daily_limit_flexible, objective_weights, provider>>

walk == <<start_hotel, current, visited>>

locals == <<cleaned_places, hotel_indices, attraction_indices>>

\* Data cleaning; "if not cleaned_places: return []".
CleanEmpty ==
    /\ pc = "clean"
    /\ CleanedPlaces = <<>>
    /\ cleaned_places' = CleanedPlaces
    /\ pc' = "done"
    /\ itineraries' = <<>>
    /\ UNCHANGED <<inputs, walk, hotel_indices, attraction_indices, matrix_calls,
                   solver_calls, status, sol, results, exception>>

\* Data cleaning with at least one named place, then get_travel_matrices.
CleanAndGetMatrices ==
    /\ pc = "clean"
    /\ CleanedPlaces # <<>>
    /\ cleaned_places' = CleanedPlaces
    /\ hotel_indices' = HotelIndices(CleanedPlaces)
    /\ attraction_indices' = AttractionIndices(CleanedPlaces)
    /\ matrix_calls' = matrix_calls + 1
    /\ pc' = "run_optimize"
    /\ UNCHANGED <<inputs, walk, solver_calls, status, sol, results, itineraries,
                   exception>>

\* run_optimize is entered and raises while the model is built.
BuildRaises ==
    /\ pc = "run_optimize"
    /\ BuildError # "none"
    /\ solver_calls' = solver_calls + 1
    /\ exception' = BuildError
    /\ pc' = "raised"
    /\ UNCHANGED <<inputs, walk, locals, matrix_calls, status, sol, results, itineraries>>

\* run_optimize is entered and builds the model.
BuildModel ==
    /\ pc = "run_optimize"
    /\ BuildError = "none"
    /\ solver_calls' = solver_calls + 1
    /\ pc' = "optimize"
    /\ UNCHANGED <<inputs, walk, locals, matrix_calls, status, sol, results, itineraries,
                   exception>>

\* model.optimize() returns an assignment that satisfies the constraints.
OptimizeSolved ==
    /\ pc = "optimize"
    /\ \E s \in Solutions : \E st \in {"OPTIMAL", "FEASIBLE"} :
          /\ sol' = s
          /\ status' = st
    /\ pc' = "extract"
    /\ UNCHANGED <<inputs, walk, locals, matrix_calls, solver_calls, results, itineraries,
                   exception>>

\* model.optimize() finds that no assignment satisfies the constraints.
OptimizeInfeasible ==
    /\ pc = "optimize"
    /\ Solutions = {}
    /\ status' = "INFEASIBLE"
    /\ pc' = "extract"
    /\ UNCHANGED <<inputs, walk, locals, matrix_calls, solver_calls, sol, results,
                   itineraries, exception>>

\* model.optimize() gives up without a solution.
OptimizeNoSolution ==
    /\ pc = "optimize"
    /\ status' = "NO_SOLUTION_FOUND"
    /\ pc' = "extract"
    /\ UNCHANGED <<inputs, walk, locals, matrix_calls, solver_calls, sol, results,
                   itineraries, exception>>

\* The rest of run_optimize: routes and metrics, or the failure branch.
Extract ==
    /\ pc = "extract"
    /\ results' = IF Solved(status) THEN SolvedResults ELSE EmptyResults
    /\ pc' = "assemble"
    /\ UNCHANGED <<inputs, walk, locals, matrix_calls, solver_calls, status, sol,
                   itineraries, exception>>

\* solve_itinerary builds the itinerary from the results and returns it.
Assemble ==
    /\ pc = "assemble"
    /\ itineraries' = <<Itinerary(results)>>
    /\ pc' = "done"
    /\ UNCHANGED <<inputs, walk, locals, matrix_calls, solver_calls, status, sol, results,
                   exception>>

Next ==
    \/ CleanEmpty
    \/ CleanAndGetMatrices
    \/ BuildRaises
    \/ BuildModel
    \/ OptimizeSolved
    \/ OptimizeInfeasible
    \/ OptimizeNoSolution
    \/ Extract
    \/ Assemble

Spec == Init /\ [][Next]_vars

(***************************************************************************)
(* The entry of solve_itinerary and of run_optimize on arbitrary caller    *)
(* data: records whose fields disagree with the list they are passed in,   *)
(* names that repeat, weights that are absent or zero.  The behaviour      *)
(* stops when run_optimize has read its data.                              *)
(***************************************************************************)
MaxNames == 2
MaxRecords == 3

PlaceNames == {NoName} \cup {<<"place", i>> : i \in 1..MaxNames}

\* A record the caller may pass.  is_hotel = FALSE also stands for a record
\* without the field (p.get("is_hotel", False)), duration = 0 for a record
\* without a duration (p.get("duration", 0)).
AnyRecords == [name : PlaceNames, is_hotel : BOOLEAN, duration : {0, 2}]

AnyLists(max) == UNION {[1..m -> AnyRecords] : m \in 0..max}

\* A weight in hundredths, or None when the dictionary has no such key.
WeightValues == {None, Some(0), Some(30), Some(100)}

WeightDicts == [distance_weight : WeightValues, time_balance_weight : WeightValues]

InitInputs ==
    /\ \/ /\ potential_hotels \in AnyLists(MaxHotels)
          /\ potential_attractions \in AnyLists(MaxAttractions)
          /\ Len(potential_hotels) + Len(potential_attractions) <= MaxRecords
          /\ objective_weights = SliderDefaultWeights
       \/ /\ potential_hotels = <<HotelRecord(1, TRUE)>>
          /\ potential_attractions =
                <<AttractionRecord(1, TRUE), AttractionRecord(2, TRUE)>>
          /\ objective_weights \in WeightDicts
    /\ trip_duration_days = 1
    /\ max_daily_hours = 12
    /\ is_daily_limit_flexible \in BOOLEAN
    /\ provider = "ok"
    /\ cleaned_places = <<>>
    /\ hotel_indices = <<>>
    /\ attraction_indices = <<>>
    /\ pc = "clean"
    /\ matrix_calls = 0
    /\ solver_calls = 0
    /\ status = "NOT_RUN"
    /\ sol = <<>>
    /\ results = EmptyResults
    /\ itineraries = <<>>
    /\ exception = "none"
    /\ start_hotel = None
    /\ current = None
    /\ visited = {}

NextInputs ==
    \/ CleanEmpty
    \/ CleanAndGetMatrices
    \/ BuildRaises
    \/ BuildModel

SpecInputs == InitInputs /\ [][NextInputs]_vars

(***************************************************************************)
(* The route reconstruction of one day, iteration by iteration, on an      *)
(* arbitrary arc assignment: the loop reads only x[.][.][k].x > 0.5, and   *)
(* what it does is asked for every assignment it may be handed, not only   *)
(* for those that satisfy the constraints.  The trip has one day (k = 0).  *)
(* The list "route" grows by one pair per iteration and is never read by   *)
(* the loop; it is not kept.                                               *)
(***************************************************************************)
MaxWalkPlaces == 3

InitWalk ==
    /\ \E h \in 1..MaxHotels : \E a \in 0..MaxAttractions :
          /\ h + a <= MaxWalkPlaces
          /\ potential_hotels = [i \in 1..h |-> HotelRecord(i, TRUE)]
          /\ potential_attractions = [i \in 1..a |-> AttractionRecord(i, TRUE)]
    /\ trip_duration_days = 1
    /\ max_daily_hours = 12
    /\ is_daily_limit_flexible = TRUE
    /\ objective_weights = SliderDefaultWeights
    /\ provider = "ok"
    /\ cleaned_places = CleanedPlaces
    /\ hotel_indices = HotelIndices(cleaned_places)
    /\ attraction_indices = AttractionIndices(cleaned_places)
    /\ pc = "start_scan"
    /\ matrix_calls = 1
    /\ solver_calls = 1
    /\ status \in {"OPTIMAL", "FEASIBLE"}
    /\ \E arcs \in SUBSET Arcs :
          sol = [k \in K |-> [x |-> arcs, y |-> [i \in A |-> 0],
                              u |-> [i \in N |-> 0], slack |-> 0]]
    /\ results = EmptyResults
    /\ itineraries = <<>>
    /\ exception = "none"
    /\ start_hotel = None
    /\ current = None
    /\ visited = {}

rest == <<inputs, locals, matrix_calls, solver_calls, status, sol, results,
          itineraries, exception>>

\* The scan for the start hotel finds a hotel with an outgoing arc.
StartHotelFound ==
    /\ pc = "start_scan"
    /\ StartHotels(0) # {}
    /\ start_hotel' = Some(MinOf(StartHotels(0)))
    /\ current' = Some(MinOf(StartHotels(0)))
    /\ visited' = {}
    /\ pc' = "walk"
    /\ UNCHANGED rest

\* "if start_hotel is None": the empty-day branch.
StartHotelNone ==
    /\ pc = "start_scan"
    /\ StartHotels(0) = {}
    /\ pc' = "no_route"
    /\ UNCHANGED <<rest, walk>>

\* One iteration of "while True" that ends the loop: no outgoing arc is found,
\* or the arc found returns to the start hotel.
WalkStop ==
    /\ pc = "walk"
    /\ \/ Successors(current[1], 0) = {}
       \/ /\ Successors(current[1], 0) # {}
          /\ MinOf(Successors(current[1], 0)) \in H
          /\ MinOf(Successors(current[1], 0)) = start_hotel[1]
    /\ pc' = "walked"
    /\ UNCHANGED <<rest, walk>>

\* One iteration of "while True" that moves on to the place the arc leads to.
WalkAdvance ==
    /\ pc = "walk"
    /\ Successors(current[1], 0) # {}
    /\ LET j == MinOf(Successors(current[1], 0))
       IN /\ ~(j \in H /\ j = start_hotel[1])
          /\ visited' = visited \cup {current[1]}
          /\ current' = Some(j)
    /\ UNCHANGED <<rest, start_hotel, pc>>

NextWalk ==
    \/ StartHotelFound
    \/ StartHotelNone
    \/ WalkStop
    \/ WalkAdvance

\* The interpreter keeps executing the loop: a step that can be taken is taken.
SpecWalk == InitWalk /\ [][NextWalk]_vars /\ WF_vars(NextWalk)

(***************************************************************************)
(* The row-by-row enumeration loses no arc set: it yields exactly the arc  *)
(* sets that satisfy (4), (5), (6) and (18) among all subsets of the arcs. *)
(***************************************************************************)
RowEnumerationExact ==
    pc = "optimize" =>
        DayArcSetsDirect =
            {xk \in RowUnions(N) :
                /\ Constr4(xk) /\ Constr5(xk) /\ Constr18(xk)
                /\ \E yk \in [A -> {0, 1}] : Constr6(xk, yk)}

(***************************************************************************)
(* Properties.                                                             *)
(***************************************************************************)
\* run_optimize has returned the results of a solved instance.
Extracted == pc \in {"assemble", "done"} /\ Solved(status)

RouteOf(p) == results.daily_routes[p]
FirstOrigin(route) == route[1][1]
LastDestination(route) == route[Len(route)][2]

\* Hotel q has an outgoing arc to an attraction / an incoming arc from an
\* attraction on day k.
Departs(q, k) == \E j \in A : x(q, j, k) = 1
Returns(q, k) == \E i \in A : x(i, q, k) = 1

\* C1 as stated: every non-empty day route of a solved instance has its first
\* pair's origin equal to its last pair's destination, on day 0 and later days.
C1_SameHotelEveryDay ==
    Extracted =>
        \A p \in DOMAIN results.daily_routes :
            RouteOf(p) # <<>> =>
                FirstOrigin(RouteOf(p)) = LastDestination(RouteOf(p))

\* C1 as amended: the route of day 0 starts and ends at the same hotel; the
\* route of every later day starts at the hotel where the route of the day
\* before ended and ends at a hotel, possibly another one; with one hotel
\* every route starts and ends at it.
C1_RouteHotels ==
    Extracted =>
        \A p \in DOMAIN results.daily_routes :
            RouteOf(p) # <<>> =>
                /\ FirstOrigin(RouteOf(p)) \in H
                /\ LastDestination(RouteOf(p)) \in H
                /\ p = 1 => FirstOrigin(RouteOf(p)) = LastDestination(RouteOf(p))
                /\ (p > 1 /\ RouteOf(p - 1) # <<>>) =>
                      FirstOrigin(RouteOf(p)) = LastDestination(RouteOf(p - 1))
                /\ Cardinality(H) = 1 =>
                      FirstOrigin(RouteOf(p)) = LastDestination(RouteOf(p))

\* A solved two-day trip whose second day ends at another hotel than it left.
C1_Witness ==
    /\ Extracted
    /\ Len(results.daily_routes) = 2
    /\ RouteOf(1) # <<>> /\ RouteOf(2) # <<>>
    /\ FirstOrigin(RouteOf(1)) = LastDestination(RouteOf(1))
    /\ FirstOrigin(RouteOf(2)) = LastDestination(RouteOf(1))
    /\ FirstOrigin(RouteOf(2)) # LastDestination(RouteOf(2))

\* C2: in every assignment the solver returns, each day has one departing and
\* one returning hotel; the hotel departing on day k >= 1 is the hotel that
\* returned on day k - 1, and on day 0 the departing hotel is the returning one.
C2_HotelContinuity ==
    Solved(status) =>
        \A k \in K :
            /\ Cardinality({q \in H : Departs(q, k)}) = 1
            /\ Cardinality({q \in H : Returns(q, k)}) = 1
            /\ \A q \in H :
                  /\ k >= 1 => (Departs(q, k) <=> Returns(q, k - 1))
                  /\ k = 0 => (Departs(q, k) <=> Returns(q, k))

\* Two hotels, two days: day 1 leaves from the hotel day 0 returned to and
\* returns to the other one.
C2_Witness ==
    /\ Solved(status)
    /\ Cardinality(H) = 2
    /\ day = 2
    /\ \E q \in H : \E r \in H :
          q # r /\ Returns(q, 0) /\ Departs(q, 1) /\ Returns(r, 1)

\* C3: in every assignment the solver returns, each attraction has y = 1 on
\* exactly one day in flexible mode and on at most one day in strict mode, and
\* is entered at most once over the whole trip.
C3_VisitedOnce ==
    Solved(status) =>
        \A i \in A :
            /\ IF flexible
               THEN SumOver(K, [k \in K |-> y(i, k)]) = 1
               ELSE SumOver(K, [k \in K |-> y(i, k)]) <= 1
            /\ SumOver(K, [k \in K |-> InDeg(sol[k].x, i)]) <= 1

\* Strict mode: one attraction is visited and another one is dropped.
C3_Witness ==
    /\ Solved(status)
    /\ ~flexible
    /\ \E i \in A : SumOver(K, [k \in K |-> y(i, k)]) = 1
    /\ \E i \in A : SumOver(K, [k \in K |-> y(i, k)]) = 0

\* C4: in every assignment the solver returns, an arc between two attractions
\* goes from the smaller order marker to the larger one, and no set of
\* attractions is closed under the day's arcs (no loop without a hotel).
C4_SubtourFree ==
    Solved(status) =>
        \A k \in K :
            /\ \A i \in A : \A j \in A :
                  (i # j /\ x(i, j, k) = 1) => u(i, k) < u(j, k)
            /\ \A C \in SUBSET A :
                  C # {} => \E i \in C : \A j \in C : i # j => x(i, j, k) = 0

\* A day that goes from one attraction to another.
C4_Witness ==
    /\ Solved(status)
    /\ \E k \in K : \E i \in A : \E j \in A : i # j /\ x(i, j, k) = 1

\* C5: in strict mode the travel plus visit time of every day, and the
\* daily_total_time_spent reported for it, is at most T_max; in flexible mode
\* it is at most T_max + slack[k], with slack[k] >= 0.
C5_TimeBudget ==
    /\ Solved(status) =>
          \A k \in K :
              IF flexible
              THEN slack(k) >= 0 /\ total_time_spent(k) <= T_max + slack(k)
              ELSE total_time_spent(k) <= T_max
    /\ (Extracted /\ ~flexible) =>
          \A p \in DOMAIN results.daily_total_time_spent :
              results.daily_total_time_spent[p] <= T_max

\* Strict mode: a reported day that uses the whole budget.
C5_Witness ==
    /\ Extracted
    /\ ~flexible
    /\ \E p \in DOMAIN results.daily_total_time_spent :
          results.daily_total_time_spent[p] = T_max

\* Time of the round trip hotel q -> attraction j -> hotel q.
RoundTrip(q, j) == t(q, j) + visiting_time(j) + t(j, q)

BelowEveryRoundTrip ==
    /\ H # {} /\ A # {}
    /\ \A q \in H : \A j \in A : T_max < RoundTrip(q, j)

BelowEveryDeparture ==
    \A q \in H : \A j \in A : T_max < t(q, j) + visiting_time(j)

\* C6 as stated: in strict mode with a budget below every round trip, once the
\* solver has answered (without giving up) the instance is solved, every day
\* route is empty with zero distance and time, and the penalty is positive.
C6_SolvedWithEmptyDays ==
    (/\ pc \in {"assemble", "done"}
     /\ status # "NO_SOLUTION_FOUND"
     /\ ~flexible
     /\ BelowEveryRoundTrip) =>
        /\ Solved(status)
        /\ \A p \in DOMAIN results.daily_routes :
              /\ RouteOf(p) = <<>>
              /\ results.daily_distance[p] = 0
              /\ results.daily_total_time_spent[p] = 0
        /\ results.penalty_value # None
        /\ results.penalty_value[1] > 0

\* C6 as amended: in strict mode with a budget below the travel time to plus
\* the visit time of every attraction from every hotel, the instance is never
\* solved: the solver's status is neither OPTIMAL nor FEASIBLE, no day route is
\* reconstructed and penalty_value stays None.
C6_NeverSolved ==
    (~flexible /\ BelowEveryDeparture) =>
        /\ ~Solved(status)
        /\ results = EmptyResults
        /\ pc = "done" => \A i \in DOMAIN itineraries :
                             itineraries[i].daily_routes = <<>>

\* Strict mode, budget below every round trip, the solver reported INFEASIBLE
\* and solve_itinerary has returned.
C6_Witness ==
    /\ pc = "done"
    /\ ~flexible
    /\ BelowEveryRoundTrip
    /\ BelowEveryDeparture
    /\ status = "INFEASIBLE"
    /\ results.daily_routes = <<>>

\* C11 as stated: for the assignment of a solved instance the distance lies
\* between the sum of the row minima and the sum of the row maxima of d, the
\* sum of Z and the sum of slack lie between 0 and T_max * |K|, and the
\* omission penalty lies between 0 and |A| (sum(Z) is taken at its least).
C11_ComponentsWithinBounds ==
    (pc \in {"extract", "assemble", "done"} /\ Solved(status)) =>
        /\ min_d <= objective_dist /\ objective_dist <= max_d
        /\ 0 <= least_time_balance_scaled
        /\ least_time_balance_scaled
              <= objective_time_balance_max * Cardinality(K)
        /\ 0 <= objective_slack /\ objective_slack <= objective_slack_max
        /\ 0 <= objective_penalty /\ objective_penalty <= objective_penalty_max

\* C12 as stated: once run_optimize has read its data, alpha and beta are the
\* weights the caller supplied, whatever their value (0 included), and the
\* default 0.5 when the weight is absent.
C12_WeightsAsSupplied ==
    pc \in {"optimize", "raised"} =>
        /\ alpha = IF objective_weights.distance_weight = None
                   THEN DefaultWeight
                   ELSE objective_weights.distance_weight[1]
        /\ beta = IF objective_weights.time_balance_weight = None
                  THEN DefaultWeight
                  ELSE objective_weights.time_balance_weight[1]

\* The number of entries of cleaned_places that were read from potential_hotels
\* (the hotels come first in the concatenation the cleaning loop runs over).
NamedHotels == Len(SelectSeq(potential_hotels, LAMBDA p : Truthy(p.name)))

\* C13 as stated: in the cleaned table a place is flagged is_hotel exactly when
\* its record was read from potential_hotels, and every place flagged as a
\* hotel has visiting time 0, whatever fields the record carries.
C13_HotelFlagAndDuration ==
    pc # "clean" =>
        \A i \in 1..Len(cleaned_places) :
            /\ cleaned_places[i].is_hotel <=> i <= NamedHotels
            /\ cleaned_places[i].is_hotel => visiting_time(i - 1) = 0

\* The named records of the two input lists, in the order of the cleaning loop.
NamedRecords ==
    SelectSeq(potential_hotels \o potential_attractions,
              LAMBDA p : Truthy(p.name))

\* The caller's assumption: no two named records carry the same name.
DistinctNames ==
    \A i, j \in 1..Len(NamedRecords) :
        NamedRecords[i].name = NamedRecords[j].name => i = j

\* The index sets partition 0..n-1, n the number of named records, hotels
\* before attractions.
IndexPartition ==
    /\ n = Len(NamedRecords)
    /\ H \cap A = {}
    /\ H \cup A = 0..(n - 1)
    /\ \A q \in H : \A i \in A : q < i

\* C14 as stated: for every pair of input lists the index sets built by the
\* cleaning satisfy H \cap A = {} and H \cup A = 0..n-1, n the number of named
\* records, hotel indices before attraction indices.
C14_IndexPartitionAlways ==
    pc \in {"run_optimize", "optimize", "raised"} => IndexPartition

\* C14 as amended: the same, for input lists whose named records carry
\* pairwise distinct names.
C14_IndexPartition ==
    (pc \in {"run_optimize", "optimize", "raised"} /\ DistinctNames)
        => IndexPartition

\* Distinct names, a hotel, an attraction and a record without a name, after
\* the index lists were built.
C14_Witness ==
    /\ pc = "run_optimize"
    /\ DistinctNames
    /\ H # {} /\ A # {}
    /\ Len(NamedRecords) < Len(potential_hotels) + Len(potential_attractions)
    /\ IndexPartition

\* How often the route reaches place i.
TimesReached(route, i) ==
    Cardinality({m \in 1..Len(route) : route[m][2] = i})

\* C15: for a solved instance the route reconstructed for day k reaches each
\* attraction with y[i][k] = 1 exactly once and no other attraction; in
\* flexible mode with one hotel and one day the route leaves the hotel,
\* reaches every attraction exactly once and returns to the hotel.
C15_RouteVisitsSelected ==
    Extracted =>
        /\ \A p \in DOMAIN results.daily_routes :
              \A i \in A : TimesReached(RouteOf(p), i) = y(i, p - 1)
        /\ (flexible /\ Cardinality(H) = 1 /\ day = 1) =>
              /\ RouteOf(1) # <<>>
              /\ FirstOrigin(RouteOf(1)) \in H
              /\ LastDestination(RouteOf(1)) = FirstOrigin(RouteOf(1))
              /\ \A i \in A : TimesReached(RouteOf(1), i) = 1
              /\ Len(RouteOf(1)) = Cardinality(A) + 1

\* Flexible mode, one hotel, one day, at least two attractions, routes built.
C15_Witness ==
    /\ Extracted
    /\ flexible /\ Cardinality(H) = 1 /\ day = 1
    /\ Cardinality(A) >= 2
    /\ Len(RouteOf(1)) = Cardinality(A) + 1

\* rec is the first record of the caller's lists that carries the name of the
\* place with index i.
IsCallerRecordOf(rec, i) ==
    LET all == potential_hotels \o potential_attractions
    IN \E pos \in 1..Len(all) :
          /\ all[pos] = rec
          /\ all[pos].name = cleaned_places[i + 1].name
          /\ \A q \in 1..(pos - 1) : all[q].name # cleaned_places[i + 1].name

C17_WalkTerminates == <>(pc \in {"walked", "no_route"})

\* C18: for a solved instance the distance, travel time and visit time
\* reported for a day are the sums, over the arcs of the day's reconstructed
\* route, of d, of t and of the visit duration of the attraction reached, and
\* the total time reported is travel plus visit time.
C18_MetricsOfRoute ==
    Extracted =>
        \A p \in DOMAIN results.daily_routes :
            LET route == RouteOf(p)
                arcs == DOMAIN route
            IN /\ results.daily_distance[p] =
                     SumOver(arcs, [m \in arcs |-> d(route[m][1], route[m][2])])
               /\ results.daily_travel_time[p] =
                     SumOver(arcs, [m \in arcs |-> t(route[m][1], route[m][2])])
               /\ results.daily_visit_time[p] =
                     SumOver(arcs, [m \in arcs |->
                        IF route[m][2] \in A THEN visiting_time(route[m][2])
                        ELSE 0])
               /\ results.daily_total_time_spent[p] =
                     results.daily_travel_time[p] + results.daily_visit_time[p]

\* Two days reported, the second one ending at another hotel than it left
\* from, each with a positive visit time.
C18_Witness ==
    /\ Extracted
    /\ day = 2
    /\ Cardinality(H) = 2
    /\ LastDestination(RouteOf(2)) # FirstOrigin(RouteOf(2))
    /\ \A p \in DOMAIN results.daily_routes : results.daily_visit_time[p] > 0

\* C19: every assignment the solver returns uses, on every day, exactly one
\* arc from a hotel to an attraction and exactly one arc from an attraction to
\* a hotel; every day of a solved instance has a non-empty route that reaches
\* an attraction, the empty-day branch is not taken, and no instance with
\* more days than attractions is solved.
C19_EveryDayHasRoute ==
    /\ Solved(status) =>
          \A k \in K :
              /\ Cardinality({a \in sol[k].x : a[1] \in H /\ a[2] \in A}) = 1
              /\ Cardinality({a \in sol[k].x : a[1] \in A /\ a[2] \in H}) = 1
              /\ ~NoRoute(k)
    /\ Extracted =>
          /\ Len(results.daily_routes) = day
          /\ \A p \in DOMAIN results.daily_routes :
                /\ RouteOf(p) # <<>>
                /\ \E m \in DOMAIN RouteOf(p) : RouteOf(p)[m][2] \in A
    /\ day > Cardinality(A) => ~Solved(status)

\* A solved trip with as many days as attractions: each day takes one.
C19_Witness ==
    /\ Extracted
    /\ day = 2
    /\ day = Cardinality(A)
    /\ \A p \in DOMAIN results.daily_routes : Len(RouteOf(p)) = 2

\* C7 as stated: with an empty attraction list solve_itinerary returns an empty
\* list and calls neither the matrix provider nor run_optimize.
C7_NoAttractionsNoSolve ==
    potential_attractions = <<>> =>
        /\ matrix_calls = 0
        /\ solver_calls = 0
        /\ pc # "raised"
        /\ pc = "done" => itineraries = <<>>

\* C8 as stated: with an empty hotel list and at least one attraction, the
\* hotel index set of the model is non-empty (a synthetic hotel) and every
\* reconstructed day route begins at a hotel of that set.
C8_SyntheticHotel ==
    (/\ potential_hotels = <<>>
     /\ Len(potential_attractions) >= 1
     /\ solver_calls >= 1) =>
        /\ H # {}
        /\ Extracted =>
              \A p \in DOMAIN results.daily_routes :
                  RouteOf(p) # <<>> /\ FirstOrigin(RouteOf(p)) \in H

\* C9 as stated: when the solver's status is neither OPTIMAL nor FEASIBLE,
\* solve_itinerary returns no itinerary entry.
C9_NoFabricatedPlan ==
    (/\ pc = "done"
     /\ status \in {"INFEASIBLE", "NO_SOLUTION_FOUND"}) =>
        itineraries = <<>>

\* C10 as stated: no exception leaves solve_itinerary, whatever the input.
C10_NoException ==
    pc # "raised" /\ exception = "none"

====
